---- MODULE Spec2Model ----
(***************************************************************************)
(* bevy-pn-chat: the chat plugin's tick-driven task registry, the          *)
(* long-poll subscription loop and the keyboard input controller.          *)
(*                                                                         *)
(* The Bevy world is modelled by the entities the plugin's systems query:  *)
(* the InputBox entity (with its Text), the PublishTask and SubscribeTask  *)
(* entities, and the ChatMessage entities.  Commands issued by a system    *)
(* are deferred: they are queued in `commands` and applied to the world    *)
(* when the stage's system buffers are applied.  Futures spawned on the    *)
(* AsyncComputeTaskPool run from the moment of thread_pool.spawn.          *)
(***************************************************************************)
EXTENDS Integers, Sequences, FiniteSets, TLC

VARIABLES
    subscription_info,  \* resource PubNubSubscribeResource
    stage,              \* "startup" or "update"
    pending,            \* systems of the stage that have not run yet this pass
    input,              \* entities matching Query<(&mut InputBox, &mut Text)>
    futures,            \* futures spawned on the task pool: per kind, by task id
    publish_tasks,      \* ids of the PublishTask entities in the world
    subscribe_tasks,    \* ids of the SubscribeTask entities in the world
    commands,           \* deferred Commands: per system, in issue order
    sink,               \* texts of the ChatMessage entities, in spawn order
    log,                \* log::error! records
    handled,            \* history: one record per observed subscribe completion
    commits,            \* history: one record per Return press handled
    key_evr,            \* Events<KeyboardInput> and keyboard_handler's reader
    argument,           \* the input of the pure function under study
    returned            \* what its calls returned, in call order

vars == <<subscription_info, stage, pending, input, futures, publish_tasks,
          subscribe_tasks, commands, sink, log, handled, commits,
          key_evr, argument, returned>>

\* the variables of the specifications of the pure functions
call == <<argument, returned>>

(***************************************************************************)
(* Bounds of the model.                                                    *)
(***************************************************************************)
MaxSubscribes == 1   \* long polls the backend answers with a well-formed body
MaxPublishes == 1    \* Return presses over a run
MaxEvents == 2       \* keyboard events delivered in one tick
MaxLen == 1          \* characters typed into the input box
MaxCalls == 2        \* calls of a pure function on one argument

(***************************************************************************)
(* Configuration (ChatPluginConfig) the plugin was built with.             *)
(***************************************************************************)
Config ==
    [keyset |-> [publish_key |-> "pub-c", subscribe_key |-> "sub-c"],
     channel |-> "bevy-pn-chat",
     username |-> "anonymous",
     message_format |-> <<"{username}", ": ", "{message}">>]

(***************************************************************************)
(* Pure helpers.                                                           *)
(***************************************************************************)
Digit(d) ==
    CASE d = 0 -> "0" [] d = 1 -> "1" [] d = 2 -> "2" [] d = 3 -> "3"
      [] d = 4 -> "4" [] d = 5 -> "5" [] d = 6 -> "6" [] d = 7 -> "7"
      [] d = 8 -> "8" [] d = 9 -> "9"

RECURSIVE NatToString(_)
NatToString(n) ==
    IF n < 10 THEN Digit(n) ELSE NatToString(n \div 10) \o Digit(n % 10)

\* i32::to_string
to_string(n) == IF n < 0 THEN "-" \o NatToString(0 - n) ELSE NatToString(n)

\* str::replace on a text held as a sequence of tokens: every token equal to
\* the pattern is replaced by the value.
replace(text, pattern, value) ==
    [i \in 1..Len(text) |-> IF text[i] = pattern THEN value ELSE text[i]]

RECURSIVE SetToSeq(_)
\* the ids of a query, in ascending (spawn) order
SetToSeq(S) ==
    IF S = {} THEN <<>>
    ELSE LET m == CHOOSE x \in S : \A y \in S : x <= y
         IN <<m>> \o SetToSeq(S \ {m})

Range(s) == {s[i] : i \in 1..Len(s)}

(***************************************************************************)
(* Results of the worker operations: Result<T, BevyPNError>.               *)
(***************************************************************************)
NoValue == [message_info |-> [tt |-> "", tr |-> 0], messages |-> <<>>]

Ok(value) == [ok |-> TRUE, err |-> "", value |-> value]

Err(kind) == [ok |-> FALSE, err |-> kind, value |-> NoValue]

Pending == [ok |-> FALSE, err |-> "pending", value |-> NoValue]

(***************************************************************************)
(* The backend's answers to one subscribe request.                         *)
(***************************************************************************)
\* a received message: channel ("c") and payload ("d") of the body, and the
\* user_id that tasks_handler reads for the {username} placeholder
Message(c, d, i) == [channel |-> c, payload |-> d, user_id |-> i]

M1 == Message("room1", "hello", "alice")

M2 == Message("room2", "{channel}", "bob")

\* a JSON body: `keys` are the keys of the top-level object, `t_keys` those of
\* the object under "t"; `json` is FALSE for bytes that are not JSON at all.
Body(json, keys, t_keys, tt, tr, m) ==
    [json |-> json, keys |-> keys, t_keys |-> t_keys, tt |-> tt, tr |-> tr, m |-> m]

GoodBodies ==
    {Body(TRUE, {"t", "m"}, {"t", "r"}, "15", 12, <<M2, M1>>),
     Body(TRUE, {"t", "m"}, {"t", "r"}, "16", -1, <<>>)}

BadBodies ==
    {Body(FALSE, {}, {}, "", 0, <<>>),
     Body(TRUE, {"t"}, {"t", "r"}, "15", 2, <<>>),
     Body(TRUE, {"t", "m"}, {"t"}, "15", 0, <<M1>>)}

\* a transport response: Err(transport error), or Ok with an optional body
TransportError == [sent |-> FALSE, body |-> <<>>]

Response(body) == [sent |-> TRUE, body |-> body]

GoodResponses == {Response(<<b>>) : b \in GoodBodies}

BadResponses ==
    {TransportError, Response(<<>>)} \cup {Response(<<b>>) : b \in BadBodies}

\* serde_json::from_slice::<SubscriptionResult>
from_slice(body) ==
    IF body.json /\ {"t", "m"} \subseteq body.keys /\ {"t", "r"} \subseteq body.t_keys
    THEN Ok([message_info |-> [tt |-> body.tt, tr |-> body.tr],
             messages |-> body.m])
    ELSE Err("Deserialize")

\* mutant: a response without a body counts as an empty result
subscribe_empty_body_ok(request, response) ==
    IF ~response.sent THEN Err("PubNub")
    ELSE IF response.body = <<>> THEN Ok(NoValue)
    ELSE from_slice(response.body[1])

\* messages::subscribe: the outcome of one long-poll request
subscribe(request, response) ==
    IF ~response.sent THEN Err("PubNub")
    ELSE IF response.body = <<>> THEN Err("EmptyBody")
    ELSE from_slice(response.body[1])

\* the publish future of keyboard_handler: execute_blocking().map(|_| ()).map_err(Into::into)
publish(request, sent) == IF sent THEN Ok(NoValue) ELSE Err("PubNub")

SubscribeRequest(subscribe_key, channel, tt, tr, user_id) ==
    [subscribe_key |-> subscribe_key, channel |-> channel,
     tt |-> tt, tr |-> tr, user_id |-> user_id]

\* a future on the task pool; `observed` counts the times a poll of the task
\* handed its result to tasks_handler (history)
Future(request) ==
    [request |-> request, state |-> "running", result |-> Pending, observed |-> 0]

\* history: the requests of the futures spawned after the first n of fs
Requests(fs, n) == [i \in 1..(Len(fs) - n) |-> fs[n + i].request]

(***************************************************************************)
(* Commands.                                                               *)
(***************************************************************************)
Spawn(kind, id, text) == [op |-> "spawn", kind |-> kind, id |-> id, text |-> text]

Despawn(kind, id) == [op |-> "despawn", kind |-> kind, id |-> id, text |-> <<>>]

Systems == {"plugin_startup", "message_handler", "keyboard_handler", "tasks_handler"}

NoCommands == [s \in Systems |-> <<>>]

InputBoxDefault == [value |-> <<>>, cursor |-> 0, selection |-> {}]

\* the event buffer, and the number of its events the reader has yielded
NoEvents == [events |-> <<>>, last_event_count |-> 0]

(***************************************************************************)
(* Init: the state after ChatPlugin::build, before the startup systems.    *)
(***************************************************************************)
\* the program's own variables
program == <<subscription_info, stage, pending, input, futures, publish_tasks,
             subscribe_tasks, commands, sink, log, handled, commits>>

\* Plugin::build for ChatPlugin: the resources are inserted, the systems added
ChatPlugin_build ==
    /\ subscription_info =
           [tt |-> "0", tr |-> "0",
            subscribe_key |-> Config.keyset.subscribe_key,
            channel |-> Config.channel,
            user_id |-> Config.username]
    /\ stage = "startup"
    /\ pending = {"plugin_startup", "message_handler"}
    /\ input = <<>>
    /\ futures = [publish |-> <<>>, subscribe |-> <<>>]
    /\ publish_tasks = {}
    /\ subscribe_tasks = {}
    /\ commands = NoCommands
    /\ sink = <<>>
    /\ log = <<>>
    /\ handled = <<>>
    /\ commits = <<>>

Init ==
    /\ ChatPlugin_build
    /\ key_evr = NoEvents
    /\ argument = <<>>
    /\ returned = <<>>

(***************************************************************************)
(* Startup systems.                                                        *)
(***************************************************************************)
plugin_startup ==
    /\ stage = "startup"
    /\ "plugin_startup" \in pending
    /\ pending' = pending \ {"plugin_startup"}
    /\ commands' = [commands EXCEPT
                        !["plugin_startup"] = Append(@, Spawn("InputBox", 0, <<>>))]
    /\ UNCHANGED <<call, key_evr, subscription_info, stage, input, futures, publish_tasks,
                   subscribe_tasks, sink, log, handled, commits>>

\* mutant: the startup system spawns the long poll twice
message_handler_twice ==
    /\ stage = "startup"
    /\ "message_handler" \in pending
    /\ pending' = pending \ {"message_handler"}
    /\ \E request \in {SubscribeRequest(subscription_info.subscribe_key,
                                         subscription_info.channel,
                                         subscription_info.tt,
                                         subscription_info.tr,
                                         subscription_info.user_id)} :
           /\ futures' = [futures EXCEPT !.subscribe =
                  Append(Append(@, Future(request)), Future(request))]
           /\ commands' = [commands EXCEPT !["message_handler"] =
                  Append(Append(@, Spawn("SubscribeTask", Len(futures.subscribe) + 1, <<>>)),
                         Spawn("SubscribeTask", Len(futures.subscribe) + 2, <<>>))]
    /\ UNCHANGED <<call, key_evr, subscription_info, stage, input, publish_tasks,
                   subscribe_tasks, sink, log, handled, commits>>

message_handler ==
    /\ stage = "startup"
    /\ "message_handler" \in pending
    /\ pending' = pending \ {"message_handler"}
    /\ futures' = [futures EXCEPT !.subscribe = Append(@,
           Future(SubscribeRequest(subscription_info.subscribe_key,
                                   subscription_info.channel,
                                   subscription_info.tt,
                                   subscription_info.tr,
                                   subscription_info.user_id)))]
    /\ commands' = [commands EXCEPT !["message_handler"] =
           Append(@, Spawn("SubscribeTask", Len(futures.subscribe) + 1, <<>>))]
    /\ UNCHANGED <<call, key_evr, subscription_info, stage, input, publish_tasks,
                   subscribe_tasks, sink, log, handled, commits>>

(***************************************************************************)
(* Applying the deferred commands at the end of a stage pass.              *)
(***************************************************************************)
World(i, p, s, k) ==
    [input |-> i, publish_tasks |-> p, subscribe_tasks |-> s, sink |-> k]

apply_command(w, c) ==
    IF c.op = "spawn" THEN
        CASE c.kind = "InputBox" ->
                 [w EXCEPT !.input = Append(@, InputBoxDefault)]
          [] c.kind = "PublishTask" ->
                 [w EXCEPT !.publish_tasks = @ \cup {c.id}]
          [] c.kind = "SubscribeTask" ->
                 [w EXCEPT !.subscribe_tasks = @ \cup {c.id}]
          [] c.kind = "ChatMessage" ->
                 [w EXCEPT !.sink = Append(@, c.text)]
    ELSE
        CASE c.kind = "PublishTask" ->
                 [w EXCEPT !.publish_tasks = @ \ {c.id}]
          [] c.kind = "SubscribeTask" ->
                 [w EXCEPT !.subscribe_tasks = @ \ {c.id}]

RECURSIVE apply_commands(_, _)
apply_commands(w, cs) ==
    IF cs = <<>> THEN w
    ELSE apply_commands(apply_command(w, Head(cs)), Tail(cs))

\* the queues of the stage's systems, in the order the systems were added
StageCommands ==
    IF stage = "startup"
    THEN commands["plugin_startup"] \o commands["message_handler"]
    ELSE commands["keyboard_handler"] \o commands["tasks_handler"]

\* the flush point of the stage; the update stage then runs again (next tick)
apply_system_buffers ==
    /\ pending = {}
    /\ LET w == apply_commands(
                    World(input, publish_tasks, subscribe_tasks, sink), StageCommands)
       IN /\ input' = w.input
          /\ publish_tasks' = w.publish_tasks
          /\ subscribe_tasks' = w.subscribe_tasks
          /\ sink' = w.sink
    /\ commands' = NoCommands
    /\ stage' = "update"
    /\ pending' = {"keyboard_handler", "tasks_handler"}
    /\ UNCHANGED <<call, key_evr, subscription_info, futures, log, handled, commits>>

(***************************************************************************)
(* Worker threads: a running future completes with the operation's result. *)
(***************************************************************************)
\* the long polls answered with a well-formed body so far
Successes == Cardinality({i \in 1..Len(futures.subscribe) :
                 futures.subscribe[i].result.ok})

\* mutant: the worker stores the cursor of a well-formed answer in the resource
worker_subscribe_writes_cursor ==
    \E id \in 1..Len(futures.subscribe) :
        /\ futures.subscribe[id].state = "running"
        /\ \E response \in
               BadResponses \cup
               (IF Successes < MaxSubscribes THEN GoodResponses ELSE {}) :
               \E result \in {subscribe(futures.subscribe[id].request, response)} :
                   /\ futures' = [futures EXCEPT
                          !.subscribe[id].state = "done",
                          !.subscribe[id].result = result]
                   /\ subscription_info' =
                          IF result.ok
                          THEN [subscription_info EXCEPT
                                   !.tt = result.value.message_info.tt,
                                   !.tr = to_string(result.value.message_info.tr)]
                          ELSE subscription_info
        /\ UNCHANGED <<call, key_evr, stage, pending, input, publish_tasks,
                       subscribe_tasks, commands, sink, log, handled, commits>>

worker_subscribe ==
    \E id \in 1..Len(futures.subscribe) :
        /\ futures.subscribe[id].state = "running"
        /\ \E response \in
               BadResponses \cup
               (IF Successes < MaxSubscribes THEN GoodResponses ELSE {}) :
               futures' = [futures EXCEPT
                   !.subscribe[id].state = "done",
                   !.subscribe[id].result =
                       subscribe(futures.subscribe[id].request, response)]
        /\ UNCHANGED <<call, key_evr, subscription_info, stage, pending, input, publish_tasks,
                       subscribe_tasks, commands, sink, log, handled, commits>>

worker_publish ==
    \E id \in 1..Len(futures.publish) :
        /\ futures.publish[id].state = "running"
        /\ \E sent \in BOOLEAN :
               futures' = [futures EXCEPT
                   !.publish[id].state = "done",
                   !.publish[id].result =
                       publish(futures.publish[id].request, sent)]
        /\ UNCHANGED <<call, key_evr, subscription_info, stage, pending, input, publish_tasks,
                       subscribe_tasks, commands, sink, log, handled, commits>>

(***************************************************************************)
(* tasks_handler                                                           *)
(***************************************************************************)
\* mutant: the poll hands over the future's result slot whatever its state
poll_once_ready(future) == <<future.result>>

\* future::block_on(future::poll_once(&mut task.0)): Some(res) once complete
poll_once(future) == IF future.state = "done" THEN <<future.result>> ELSE <<>>

\* the text of one ChatMessage: the three chained replace calls
render(message_format, message) ==
    replace(replace(replace(message_format, "{username}", message.user_id),
                    "{message}", message.payload),
            "{channel}", message.channel)

RECURSIVE spawn_messages_rev(_, _, _)
\* mutant: the messages are spawned last to first
spawn_messages_rev(cmds, messages, message_format) ==
    IF messages = <<>> THEN cmds
    ELSE Append(spawn_messages_rev(cmds, Tail(messages), message_format),
                Spawn("ChatMessage", 0, render(message_format, Head(messages))))

RECURSIVE spawn_messages(_, _, _)
\* result.messages.iter().for_each(|message| commands.spawn((ChatMessage, ...)))
spawn_messages(cmds, messages, message_format) ==
    IF messages = <<>> THEN cmds
    ELSE spawn_messages(
             Append(cmds, Spawn("ChatMessage", 0, render(message_format, Head(messages)))),
             Tail(messages), message_format)

\* mutant: the next long poll reuses the resource's cursor, as message_handler does
next_request_stale(info, result) ==
    SubscribeRequest(info.subscribe_key, info.channel, info.tt, info.tr, info.user_id)

\* the request of the next long poll, built from the result just received
next_request(info, result) ==
    SubscribeRequest(info.subscribe_key, info.channel,
                     result.message_info.tt,
                     to_string(result.message_info.tr),
                     info.user_id)

RECURSIVE poll_per_message(_, _, _, _)
poll_per_message(st, info, result, messages) ==
    IF messages = <<>> THEN st
    ELSE LET fs == Append(st.futures.subscribe, Future(next_request(info, result)))
         IN poll_per_message(
                [st EXCEPT
                    !.futures.subscribe = fs,
                    !.commands = Append(
                        Append(@, Spawn("SubscribeTask", Len(fs), <<>>)),
                        Spawn("ChatMessage", 0,
                              render(Config.message_format, Head(messages))))],
                info, result, Tail(messages))

\* mutant: the next long poll is spawned inside the loop over the messages
on_subscribe_ok_per_message(st, info, result) ==
    poll_per_message(st, info, result, result.messages)

\* the .map(|result| { ... }) closure of the subscribe branch
on_subscribe_ok(st, info, result) ==
    LET fs == Append(st.futures.subscribe, Future(next_request(info, result)))
    IN [st EXCEPT
           !.futures.subscribe = fs,
           !.commands = spawn_messages(
                            Append(@, Spawn("SubscribeTask", Len(fs), <<>>)),
                            result.messages, Config.message_format)]

\* mutant: the error is logged and also shown as a chat message
on_error_shows_message(st, op, res) ==
    [st EXCEPT !.log = Append(@, [op |-> op, err |-> res.err]),
               !.commands = Append(@, Spawn("ChatMessage", 0, <<res.err>>))]

\* mutant: a failed long poll is logged and spawned again from the sentinel
on_error_respawn(st, op, res) ==
    LET fs == Append(st.futures.subscribe,
                     Future(SubscribeRequest(Config.keyset.subscribe_key,
                                             Config.channel, "0", "0",
                                             Config.username)))
    IN IF op = "subscribe"
       THEN [st EXCEPT !.log = Append(@, [op |-> op, err |-> res.err]),
                       !.futures.subscribe = fs,
                       !.commands = Append(@, Spawn("SubscribeTask", Len(fs), <<>>))]
       ELSE [st EXCEPT !.log = Append(@, [op |-> op, err |-> res.err])]

\* the .map_err(|err| log::error!(...)) of either branch
on_error(st, op, res) ==
    [st EXCEPT !.log = Append(@, [op |-> op, err |-> res.err])]

\* mutant: the completed task's entity is left in the world
despawn_missing(cmds, kind, id) == cmds

despawn(cmds, kind, id) == Append(cmds, Despawn(kind, id))

\* mutant: a failed publish is spawned again with the same request
publish_completion_retry(st, id) ==
    LET polled == poll_once(st.futures.publish[id])
    IN IF polled = <<>> THEN st
       ELSE LET res == polled[1]
                fs == Append(st.futures.publish, Future(st.futures.publish[id].request))
                s1 == IF res.ok THEN st
                      ELSE [on_error(st, "publish", res) EXCEPT
                               !.futures.publish = fs,
                               !.commands = Append(@, Spawn("PublishTask", Len(fs), <<>>))]
            IN [s1 EXCEPT
                   !.commands = despawn(@, "PublishTask", id),
                   !.futures.publish[id].observed = @ + 1]

\* one iteration of publish_tasks.iter_mut().for_each
publish_completion(st, id) ==
    LET polled == poll_once(st.futures.publish[id])
    IN IF polled = <<>> THEN st
       ELSE LET res == polled[1]
                s1 == IF res.ok THEN st ELSE on_error(st, "publish", res)
            IN [s1 EXCEPT
                   !.commands = despawn(@, "PublishTask", id),
                   !.futures.publish[id].observed = @ + 1]

\* one iteration of subscribe_tasks.iter_mut().for_each
subscribe_completion(st, info, id) ==
    LET polled == poll_once(st.futures.subscribe[id])
    IN IF polled = <<>> THEN st
       ELSE LET res == polled[1]
                s1 == IF res.ok THEN on_subscribe_ok(st, info, res.value)
                      ELSE on_error(st, "subscribe", res)
            IN [s1 EXCEPT
                   !.commands = despawn(@, "SubscribeTask", id),
                   !.futures.subscribe[id].observed = @ + 1,
                   !.handled = Append(@,
                       [id |-> id,
                        request |-> st.futures.subscribe[id].request,
                        result |-> res,
                        enqueued |-> Requests(s1.futures.subscribe,
                                              Len(st.futures.subscribe))])]

RECURSIVE drain_publish(_, _)
drain_publish(st, ids) ==
    IF ids = <<>> THEN st
    ELSE drain_publish(publish_completion(st, Head(ids)), Tail(ids))

RECURSIVE drain_subscribe(_, _, _)
drain_subscribe(st, info, ids) ==
    IF ids = <<>> THEN st
    ELSE drain_subscribe(subscribe_completion(st, info, Head(ids)), info, Tail(ids))

tasks_handler ==
    /\ stage = "update"
    /\ "tasks_handler" \in pending
    /\ pending' = pending \ {"tasks_handler"}
    /\ \E st \in {drain_subscribe(
                       drain_publish(
                           [futures |-> futures, commands |-> commands["tasks_handler"],
                            log |-> log, handled |-> handled],
                           SetToSeq(publish_tasks)),
                       subscription_info, SetToSeq(subscribe_tasks))} :
           /\ futures' = st.futures
           /\ commands' = [commands EXCEPT !["tasks_handler"] = st.commands]
           /\ log' = st.log
           /\ handled' = st.handled
    /\ UNCHANGED <<call, key_evr, subscription_info, stage, input, publish_tasks,
                   subscribe_tasks, sink, commits>>

(***************************************************************************)
(* keyboard_handler                                                        *)
(***************************************************************************)
\* bevy::prelude::KeyCode: every variant, in declaration order
KeyCode ==
    {"Key1", "Key2", "Key3", "Key4", "Key5", "Key6", "Key7", "Key8", "Key9",
     "Key0", "A", "B", "C", "D", "E", "F", "G", "H", "I", "J", "K", "L",
     "M", "N", "O", "P", "Q", "R", "S", "T", "U", "V", "W", "X", "Y", "Z",
     "Escape", "F1", "F2", "F3", "F4", "F5", "F6", "F7", "F8", "F9", "F10",
     "F11", "F12", "F13", "F14", "F15", "F16", "F17", "F18", "F19", "F20",
     "F21", "F22", "F23", "F24", "Snapshot", "Scroll", "Pause", "Insert",
     "Home", "Delete", "End", "PageDown", "PageUp", "Left", "Up", "Right",
     "Down", "Back", "Return", "Space", "Compose", "Caret", "Numlock",
     "Numpad0", "Numpad1", "Numpad2", "Numpad3", "Numpad4", "Numpad5",
     "Numpad6", "Numpad7", "Numpad8", "Numpad9", "AbntC1", "AbntC2",
     "NumpadAdd", "Apostrophe", "Apps", "Asterisk", "Plus", "At", "Ax",
     "Backslash", "Calculator", "Capital", "Colon", "Comma", "Convert",
     "NumpadDecimal", "NumpadDivide", "Equals", "Grave", "Kana", "Kanji",
     "LAlt", "LBracket", "LControl", "LShift", "LWin", "Mail",
     "MediaSelect", "MediaStop", "Minus", "NumpadMultiply", "Mute",
     "MyComputer", "NavigateForward", "NavigateBackward", "NextTrack",
     "NoConvert", "NumpadComma", "NumpadEnter", "NumpadEquals", "Oem102",
     "Period", "PlayPause", "Power", "PrevTrack", "RAlt", "RBracket",
     "RControl", "RShift", "RWin", "Semicolon", "Slash", "Sleep", "Stop",
     "NumpadSubtract", "Sysrq", "Tab", "Underline", "Unlabeled",
     "VolumeDown", "VolumeUp", "Wake", "WebBack", "WebFavorites",
     "WebForward", "WebHome", "WebRefresh", "WebSearch", "WebStop", "Yen",
     "Copy", "Paste", "Cut"}

\* the name of a KeyCode variant, character by character, as serde writes it
variant_name(key_code) ==
    CASE key_code = "Key1" -> <<"K", "e", "y", "1">>
      [] key_code = "Key2" -> <<"K", "e", "y", "2">>
      [] key_code = "Key3" -> <<"K", "e", "y", "3">>
      [] key_code = "Key4" -> <<"K", "e", "y", "4">>
      [] key_code = "Key5" -> <<"K", "e", "y", "5">>
      [] key_code = "Key6" -> <<"K", "e", "y", "6">>
      [] key_code = "Key7" -> <<"K", "e", "y", "7">>
      [] key_code = "Key8" -> <<"K", "e", "y", "8">>
      [] key_code = "Key9" -> <<"K", "e", "y", "9">>
      [] key_code = "Key0" -> <<"K", "e", "y", "0">>
      [] key_code = "A" -> <<"A">>
      [] key_code = "B" -> <<"B">>
      [] key_code = "C" -> <<"C">>
      [] key_code = "D" -> <<"D">>
      [] key_code = "E" -> <<"E">>
      [] key_code = "F" -> <<"F">>
      [] key_code = "G" -> <<"G">>
      [] key_code = "H" -> <<"H">>
      [] key_code = "I" -> <<"I">>
      [] key_code = "J" -> <<"J">>
      [] key_code = "K" -> <<"K">>
      [] key_code = "L" -> <<"L">>
      [] key_code = "M" -> <<"M">>
      [] key_code = "N" -> <<"N">>
      [] key_code = "O" -> <<"O">>
      [] key_code = "P" -> <<"P">>
      [] key_code = "Q" -> <<"Q">>
      [] key_code = "R" -> <<"R">>
      [] key_code = "S" -> <<"S">>
      [] key_code = "T" -> <<"T">>
      [] key_code = "U" -> <<"U">>
      [] key_code = "V" -> <<"V">>
      [] key_code = "W" -> <<"W">>
      [] key_code = "X" -> <<"X">>
      [] key_code = "Y" -> <<"Y">>
      [] key_code = "Z" -> <<"Z">>
      [] key_code = "Escape" -> <<"E", "s", "c", "a", "p", "e">>
      [] key_code = "F1" -> <<"F", "1">>
      [] key_code = "F2" -> <<"F", "2">>
      [] key_code = "F3" -> <<"F", "3">>
      [] key_code = "F4" -> <<"F", "4">>
      [] key_code = "F5" -> <<"F", "5">>
      [] key_code = "F6" -> <<"F", "6">>
      [] key_code = "F7" -> <<"F", "7">>
      [] key_code = "F8" -> <<"F", "8">>
      [] key_code = "F9" -> <<"F", "9">>
      [] key_code = "F10" -> <<"F", "1", "0">>
      [] key_code = "F11" -> <<"F", "1", "1">>
      [] key_code = "F12" -> <<"F", "1", "2">>
      [] key_code = "F13" -> <<"F", "1", "3">>
      [] key_code = "F14" -> <<"F", "1", "4">>
      [] key_code = "F15" -> <<"F", "1", "5">>
      [] key_code = "F16" -> <<"F", "1", "6">>
      [] key_code = "F17" -> <<"F", "1", "7">>
      [] key_code = "F18" -> <<"F", "1", "8">>
      [] key_code = "F19" -> <<"F", "1", "9">>
      [] key_code = "F20" -> <<"F", "2", "0">>
      [] key_code = "F21" -> <<"F", "2", "1">>
      [] key_code = "F22" -> <<"F", "2", "2">>
      [] key_code = "F23" -> <<"F", "2", "3">>
      [] key_code = "F24" -> <<"F", "2", "4">>
      [] key_code = "Snapshot" -> <<"S", "n", "a", "p", "s", "h", "o", "t">>
      [] key_code = "Scroll" -> <<"S", "c", "r", "o", "l", "l">>
      [] key_code = "Pause" -> <<"P", "a", "u", "s", "e">>
      [] key_code = "Insert" -> <<"I", "n", "s", "e", "r", "t">>
      [] key_code = "Home" -> <<"H", "o", "m", "e">>
      [] key_code = "Delete" -> <<"D", "e", "l", "e", "t", "e">>
      [] key_code = "End" -> <<"E", "n", "d">>
      [] key_code = "PageDown" -> <<"P", "a", "g", "e", "D", "o", "w", "n">>
      [] key_code = "PageUp" -> <<"P", "a", "g", "e", "U", "p">>
      [] key_code = "Left" -> <<"L", "e", "f", "t">>
      [] key_code = "Up" -> <<"U", "p">>
      [] key_code = "Right" -> <<"R", "i", "g", "h", "t">>
      [] key_code = "Down" -> <<"D", "o", "w", "n">>
      [] key_code = "Back" -> <<"B", "a", "c", "k">>
      [] key_code = "Return" -> <<"R", "e", "t", "u", "r", "n">>
      [] key_code = "Space" -> <<"S", "p", "a", "c", "e">>
      [] key_code = "Compose" -> <<"C", "o", "m", "p", "o", "s", "e">>
      [] key_code = "Caret" -> <<"C", "a", "r", "e", "t">>
      [] key_code = "Numlock" -> <<"N", "u", "m", "l", "o", "c", "k">>
      [] key_code = "Numpad0" -> <<"N", "u", "m", "p", "a", "d", "0">>
      [] key_code = "Numpad1" -> <<"N", "u", "m", "p", "a", "d", "1">>
      [] key_code = "Numpad2" -> <<"N", "u", "m", "p", "a", "d", "2">>
      [] key_code = "Numpad3" -> <<"N", "u", "m", "p", "a", "d", "3">>
      [] key_code = "Numpad4" -> <<"N", "u", "m", "p", "a", "d", "4">>
      [] key_code = "Numpad5" -> <<"N", "u", "m", "p", "a", "d", "5">>
      [] key_code = "Numpad6" -> <<"N", "u", "m", "p", "a", "d", "6">>
      [] key_code = "Numpad7" -> <<"N", "u", "m", "p", "a", "d", "7">>
      [] key_code = "Numpad8" -> <<"N", "u", "m", "p", "a", "d", "8">>
      [] key_code = "Numpad9" -> <<"N", "u", "m", "p", "a", "d", "9">>
      [] key_code = "AbntC1" -> <<"A", "b", "n", "t", "C", "1">>
      [] key_code = "AbntC2" -> <<"A", "b", "n", "t", "C", "2">>
      [] key_code = "NumpadAdd" -> <<"N", "u", "m", "p", "a", "d", "A", "d", "d">>
      [] key_code = "Apostrophe" -> <<"A", "p", "o", "s", "t", "r", "o", "p", "h", "e">>
      [] key_code = "Apps" -> <<"A", "p", "p", "s">>
      [] key_code = "Asterisk" -> <<"A", "s", "t", "e", "r", "i", "s", "k">>
      [] key_code = "Plus" -> <<"P", "l", "u", "s">>
      [] key_code = "At" -> <<"A", "t">>
      [] key_code = "Ax" -> <<"A", "x">>
      [] key_code = "Backslash" -> <<"B", "a", "c", "k", "s", "l", "a", "s", "h">>
      [] key_code = "Calculator" -> <<"C", "a", "l", "c", "u", "l", "a", "t", "o", "r">>
      [] key_code = "Capital" -> <<"C", "a", "p", "i", "t", "a", "l">>
      [] key_code = "Colon" -> <<"C", "o", "l", "o", "n">>
      [] key_code = "Comma" -> <<"C", "o", "m", "m", "a">>
      [] key_code = "Convert" -> <<"C", "o", "n", "v", "e", "r", "t">>
      [] key_code = "NumpadDecimal" -> <<"N", "u", "m", "p", "a", "d", "D", "e", "c", "i", "m", "a", "l">>
      [] key_code = "NumpadDivide" -> <<"N", "u", "m", "p", "a", "d", "D", "i", "v", "i", "d", "e">>
      [] key_code = "Equals" -> <<"E", "q", "u", "a", "l", "s">>
      [] key_code = "Grave" -> <<"G", "r", "a", "v", "e">>
      [] key_code = "Kana" -> <<"K", "a", "n", "a">>
      [] key_code = "Kanji" -> <<"K", "a", "n", "j", "i">>
      [] key_code = "LAlt" -> <<"L", "A", "l", "t">>
      [] key_code = "LBracket" -> <<"L", "B", "r", "a", "c", "k", "e", "t">>
      [] key_code = "LControl" -> <<"L", "C", "o", "n", "t", "r", "o", "l">>
      [] key_code = "LShift" -> <<"L", "S", "h", "i", "f", "t">>
      [] key_code = "LWin" -> <<"L", "W", "i", "n">>
      [] key_code = "Mail" -> <<"M", "a", "i", "l">>
      [] key_code = "MediaSelect" -> <<"M", "e", "d", "i", "a", "S", "e", "l", "e", "c", "t">>
      [] key_code = "MediaStop" -> <<"M", "e", "d", "i", "a", "S", "t", "o", "p">>
      [] key_code = "Minus" -> <<"M", "i", "n", "u", "s">>
      [] key_code = "NumpadMultiply" -> <<"N", "u", "m", "p", "a", "d", "M", "u", "l", "t", "i", "p", "l", "y">>
      [] key_code = "Mute" -> <<"M", "u", "t", "e">>
      [] key_code = "MyComputer" -> <<"M", "y", "C", "o", "m", "p", "u", "t", "e", "r">>
      [] key_code = "NavigateForward" -> <<"N", "a", "v", "i", "g", "a", "t", "e", "F", "o", "r", "w", "a", "r", "d">>
      [] key_code = "NavigateBackward" -> <<"N", "a", "v", "i", "g", "a", "t", "e", "B", "a", "c", "k", "w", "a", "r", "d">>
      [] key_code = "NextTrack" -> <<"N", "e", "x", "t", "T", "r", "a", "c", "k">>
      [] key_code = "NoConvert" -> <<"N", "o", "C", "o", "n", "v", "e", "r", "t">>
      [] key_code = "NumpadComma" -> <<"N", "u", "m", "p", "a", "d", "C", "o", "m", "m", "a">>
      [] key_code = "NumpadEnter" -> <<"N", "u", "m", "p", "a", "d", "E", "n", "t", "e", "r">>
      [] key_code = "NumpadEquals" -> <<"N", "u", "m", "p", "a", "d", "E", "q", "u", "a", "l", "s">>
      [] key_code = "Oem102" -> <<"O", "e", "m", "1", "0", "2">>
      [] key_code = "Period" -> <<"P", "e", "r", "i", "o", "d">>
      [] key_code = "PlayPause" -> <<"P", "l", "a", "y", "P", "a", "u", "s", "e">>
      [] key_code = "Power" -> <<"P", "o", "w", "e", "r">>
      [] key_code = "PrevTrack" -> <<"P", "r", "e", "v", "T", "r", "a", "c", "k">>
      [] key_code = "RAlt" -> <<"R", "A", "l", "t">>
      [] key_code = "RBracket" -> <<"R", "B", "r", "a", "c", "k", "e", "t">>
      [] key_code = "RControl" -> <<"R", "C", "o", "n", "t", "r", "o", "l">>
      [] key_code = "RShift" -> <<"R", "S", "h", "i", "f", "t">>
      [] key_code = "RWin" -> <<"R", "W", "i", "n">>
      [] key_code = "Semicolon" -> <<"S", "e", "m", "i", "c", "o", "l", "o", "n">>
      [] key_code = "Slash" -> <<"S", "l", "a", "s", "h">>
      [] key_code = "Sleep" -> <<"S", "l", "e", "e", "p">>
      [] key_code = "Stop" -> <<"S", "t", "o", "p">>
      [] key_code = "NumpadSubtract" -> <<"N", "u", "m", "p", "a", "d", "S", "u", "b", "t", "r", "a", "c", "t">>
      [] key_code = "Sysrq" -> <<"S", "y", "s", "r", "q">>
      [] key_code = "Tab" -> <<"T", "a", "b">>
      [] key_code = "Underline" -> <<"U", "n", "d", "e", "r", "l", "i", "n", "e">>
      [] key_code = "Unlabeled" -> <<"U", "n", "l", "a", "b", "e", "l", "e", "d">>
      [] key_code = "VolumeDown" -> <<"V", "o", "l", "u", "m", "e", "D", "o", "w", "n">>
      [] key_code = "VolumeUp" -> <<"V", "o", "l", "u", "m", "e", "U", "p">>
      [] key_code = "Wake" -> <<"W", "a", "k", "e">>
      [] key_code = "WebBack" -> <<"W", "e", "b", "B", "a", "c", "k">>
      [] key_code = "WebFavorites" -> <<"W", "e", "b", "F", "a", "v", "o", "r", "i", "t", "e", "s">>
      [] key_code = "WebForward" -> <<"W", "e", "b", "F", "o", "r", "w", "a", "r", "d">>
      [] key_code = "WebHome" -> <<"W", "e", "b", "H", "o", "m", "e">>
      [] key_code = "WebRefresh" -> <<"W", "e", "b", "R", "e", "f", "r", "e", "s", "h">>
      [] key_code = "WebSearch" -> <<"W", "e", "b", "S", "e", "a", "r", "c", "h">>
      [] key_code = "WebStop" -> <<"W", "e", "b", "S", "t", "o", "p">>
      [] key_code = "Yen" -> <<"Y", "e", "n">>
      [] key_code = "Copy" -> <<"C", "o", "p", "y">>
      [] key_code = "Paste" -> <<"P", "a", "s", "t", "e">>
      [] key_code = "Cut" -> <<"C", "u", "t">>

\* serde_json::to_string(&key_code): the variant name between double quotes
to_json_string(key_code) == <<"\"">> \o variant_name(key_code) \o <<"\"">>

SERIALIZED_LETTERS_POSITION == 3

SERIALIZED_DIGITS_POSITION == 4

SERIALIZED_NUMPAD_POSITION == 7

\* serialized.chars().nth(n): Option<char>, as a sequence of at most one character
nth(serialized, n) == IF n + 1 <= Len(serialized) THEN <<serialized[n + 1]>> ELSE <<>>

starts_with(serialized, prefix) ==
    /\ Len(prefix) <= Len(serialized)
    /\ SubSeq(serialized, 1, Len(prefix)) = prefix

special_characters_filter(key_code) ==
    CASE key_code = "Space" -> <<" ">>
      [] key_code = "Comma" -> <<",">>
      [] key_code = "Period" -> <<".">>
      [] key_code = "Slash" -> <<"/">>
      [] key_code = "Semicolon" -> <<";">>
      [] key_code = "Apostrophe" -> <<"'">>
      [] key_code = "Backslash" -> <<"\\">>
      [] key_code = "LBracket" -> <<"[">>
      [] key_code = "RBracket" -> <<"]">>
      [] key_code = "Grave" -> <<"U+0060">>  \* the grave accent character
      [] key_code = "Minus" -> <<"-">>
      [] key_code = "Equals" -> <<"=">>
      [] OTHER -> <<>>

letter_filter(serialized) ==
    IF Len(serialized) = SERIALIZED_LETTERS_POSITION THEN nth(serialized, 1) ELSE <<>>

\* mutant: only the digit row is recognised
digits_filter_row_only(serialized) ==
    IF starts_with(serialized, <<"\"", "K", "e", "y">>)
    THEN nth(serialized, SERIALIZED_DIGITS_POSITION) ELSE <<>>

digits_filter(serialized) ==
    LET key == IF starts_with(serialized, <<"\"", "K", "e", "y">>)
               THEN nth(serialized, SERIALIZED_DIGITS_POSITION) ELSE <<>>
    IN IF key # <<>> THEN key
       ELSE IF starts_with(serialized, <<"\"", "N", "u", "m", "p", "a", "d">>)
            THEN nth(serialized, SERIALIZED_NUMPAD_POSITION) ELSE <<>>

characters_filter(key_code) ==
    LET special == special_characters_filter(key_code)
    IN IF special # <<>> THEN special
       ELSE LET serialized == to_json_string(key_code)
                letter == letter_filter(serialized)
            IN IF letter # <<>> THEN letter ELSE digits_filter(serialized)

\* String::pop
pop(value) == IF value = <<>> THEN value ELSE SubSeq(value, 1, Len(value) - 1)

\* String::push
push(value, character) == Append(value, character)

\* the publish future's captured arguments
PublishRequest(message, channel) == [message |-> message, channel |-> channel]

\* mutant: the message is read after the text was cleared
commit_after_clear(st, i) ==
    LET fs == Append(st.futures.publish,
                     Future(PublishRequest(<<>>, Config.channel)))
    IN [st EXCEPT
           !.input[i] = [value |-> <<>>, cursor |-> 0, selection |-> {}],
           !.futures.publish = fs,
           !.commands = Append(@, Spawn("PublishTask", Len(fs), <<>>))]

\* mutant: the cursor is left at the end of the text that was sent
commit_cursor_at_end(st, i) ==
    LET message == st.input[i].value
        fs == Append(st.futures.publish,
                     Future(PublishRequest(message, Config.channel)))
    IN [st EXCEPT
           !.input[i] = [value |-> <<>>, cursor |-> Len(message), selection |-> {}],
           !.futures.publish = fs,
           !.commands = Append(@, Spawn("PublishTask", Len(fs), <<>>))]

\* mutant: a Return also starts a new long poll from the sentinel
commit_restarts_poll(st, i) ==
    LET message == st.input[i].value
        fs == Append(st.futures.publish,
                     Future(PublishRequest(message, Config.channel)))
        ss == Append(st.futures.subscribe,
                     Future(SubscribeRequest(Config.keyset.subscribe_key,
                                             Config.channel, "0", "0",
                                             Config.username)))
    IN [st EXCEPT
           !.input[i] = [value |-> <<>>, cursor |-> 0, selection |-> {}],
           !.futures.publish = fs,
           !.futures.subscribe = ss,
           !.commands = Append(Append(@, Spawn("PublishTask", Len(fs), <<>>)),
                               Spawn("SubscribeTask", Len(ss), <<>>))]

\* mutant: the text is cleared but not sent while a publish is still running
commit_if_idle(st, i) ==
    LET message == st.input[i].value
        fs == Append(st.futures.publish,
                     Future(PublishRequest(message, Config.channel)))
        busy == \E id \in 1..Len(st.futures.publish) :
                    st.futures.publish[id].state = "running"
    IN IF busy
       THEN [st EXCEPT
                !.input[i] = [value |-> <<>>, cursor |-> 0, selection |-> {}]]
       ELSE [st EXCEPT
                !.input[i] = [value |-> <<>>, cursor |-> 0, selection |-> {}],
                !.futures.publish = fs,
                !.commands = Append(@, Spawn("PublishTask", Len(fs), <<>>))]

\* KeyCode::Return, the body of input.iter_mut().for_each for entity i
commit(st, i) ==
    LET message == st.input[i].value
        fs == Append(st.futures.publish,
                     Future(PublishRequest(message, Config.channel)))
    IN [st EXCEPT
           !.input[i] = [value |-> <<>>, cursor |-> 0, selection |-> {}],
           !.futures.publish = fs,
           !.commands = Append(@, Spawn("PublishTask", Len(fs), <<>>))]

RECURSIVE commit_all(_, _)
commit_all(st, i) ==
    IF i > Len(st.input) THEN st ELSE commit_all(commit(st, i), i + 1)

\* one pressed key: the match of keyboard_handler and the .map that follows it
press(st, key) ==
    IF key = "Return" THEN
        LET s1 == commit_all(st, 1)
        IN [s1 EXCEPT !.commits = Append(@,
               [before |-> st.input,
                after |-> s1.input,
                enqueued |-> Requests(s1.futures.publish, Len(st.futures.publish))])]
    ELSE IF key = "Back" THEN
        [st EXCEPT !.input =
            [i \in 1..Len(st.input) |-> [st.input[i] EXCEPT !.value = pop(@)]]]
    ELSE LET character == characters_filter(key)
         IN IF character = <<>> THEN st
            ELSE [st EXCEPT !.input =
                     [i \in 1..Len(st.input) |->
                         [st.input[i] EXCEPT !.value = push(@, character[1])]]]

\* a KeyboardInput event: key_code is an Option<KeyCode>
KeyboardInput(key_code, pressed) == [key_code |-> key_code, pressed |-> pressed]

\* one event through .filter(|key| key.state.is_pressed())
\* .filter_map(|key| key.key_code).for_each(...)
on_event(st, event) ==
    IF event.pressed /\ event.key_code # <<>> THEN press(st, event.key_code[1]) ELSE st

RECURSIVE for_each_rev(_, _)
\* mutant: the events of the tick are handled last to first
for_each_rev(st, events) ==
    IF events = <<>> THEN st
    ELSE on_event(for_each_rev(st, Tail(events)), Head(events))

RECURSIVE fold_events(_, _)
fold_events(st, events) ==
    IF events = <<>> THEN st
    ELSE fold_events(on_event(st, Head(events)), Tail(events))

\* mutant: the Return presses of the tick are handled after its other events
for_each_returns_last(st, events) ==
    fold_events(
        fold_events(st, SelectSeq(events, LAMBDA e : e.key_code # <<"Return">>)),
        SelectSeq(events, LAMBDA e : e.key_code = <<"Return">>))

RECURSIVE for_each(_, _)
\* key_evr.iter().filter(..).filter_map(..).for_each(..): the events in the
\* order the reader yields them, which is the order they were sent in
for_each(st, events) ==
    IF events = <<>> THEN st
    ELSE for_each(on_event(st, Head(events)), Tail(events))

\* the key events the model delivers
TickKeys == {"Return", "Back", "A"}

Events ==
    {KeyboardInput(<<k>>, TRUE) : k \in TickKeys}
        \cup {KeyboardInput(<<"A">>, FALSE), KeyboardInput(<<>>, TRUE)}

KeyState == [input |-> input, futures |-> futures,
             commands |-> commands["keyboard_handler"], commits |-> commits]

\* the events keep the text and the number of publishes within the bounds
WithinBounds(st) ==
    /\ \A i \in 1..Len(st.input) : Len(st.input[i].value) <= MaxLen
    /\ Len(st.commits) <= MaxPublishes

RECURSIVE for_each_event(_, _)
\* the outcomes of handling, in arrival order, every sequence of at most n events
for_each_event(outcomes, n) ==
    IF n = 0 THEN outcomes
    ELSE outcomes \cup for_each_event(
             {st \in {on_event(s, e) : s \in outcomes, e \in Events} : WithinBounds(st)},
             n - 1)

keyboard_handler ==
    /\ stage = "update"
    /\ "keyboard_handler" \in pending
    /\ pending' = pending \ {"keyboard_handler"}
    /\ \E st \in for_each_event({KeyState}, MaxEvents) :
           /\ input' = st.input
           /\ futures' = st.futures
           /\ commands' = [commands EXCEPT !["keyboard_handler"] = st.commands]
           /\ commits' = st.commits
    /\ UNCHANGED <<call, key_evr, subscription_info, stage, publish_tasks, subscribe_tasks,
                   sink, log, handled>>

(***************************************************************************)
(* The program.                                                            *)
(***************************************************************************)
Next ==
    \/ plugin_startup
    \/ message_handler
    \/ apply_system_buffers
    \/ keyboard_handler
    \/ tasks_handler
    \/ worker_subscribe
    \/ worker_publish

Spec == Init /\ [][Next]_vars

(***************************************************************************)
(* keyboard_handler on its own, tick after tick, reading the events that   *)
(* were sent to Events<KeyboardInput>.  The state is that of the first     *)
(* tick: the startup systems have run and their commands were applied.     *)
(***************************************************************************)
MaxReaderEvents == 4   \* events in the buffer
MaxText == 2           \* characters typed into the input box

\* the events the reader has not yielded yet
Unread ==
    SubSeq(key_evr.events, key_evr.last_event_count + 1, Len(key_evr.events))

WithinReaderBounds(st) ==
    /\ \A i \in 1..Len(st.input) : Len(st.input[i].value) <= MaxText
    /\ Len(st.commits) <= MaxPublishes

InitKeyboard ==
    /\ subscription_info =
           [tt |-> "0", tr |-> "0",
            subscribe_key |-> Config.keyset.subscribe_key,
            channel |-> Config.channel,
            user_id |-> Config.username]
    /\ stage = "update"
    /\ pending = {"keyboard_handler", "tasks_handler"}
    /\ input = <<InputBoxDefault>>
    /\ futures = [publish |-> <<>>,
                  subscribe |-> <<Future(SubscribeRequest(
                      Config.keyset.subscribe_key, Config.channel, "0", "0",
                      Config.username))>>]
    /\ publish_tasks = {}
    /\ subscribe_tasks = {1}
    /\ commands = NoCommands
    /\ sink = <<>>
    /\ log = <<>>
    /\ handled = <<>>
    /\ commits = <<>>
    /\ key_evr = NoEvents
    /\ argument = <<>>
    /\ returned = <<>>

\* the window sends one more event of the frame, before the frame's systems run
KeyboardInput_send ==
    /\ key_evr.last_event_count = 0
    /\ Len(key_evr.events) < MaxReaderEvents
    /\ \E event \in Events :
           /\ WithinReaderBounds(for_each(KeyState, Append(Unread, event)))
           /\ key_evr' = [key_evr EXCEPT !.events = Append(@, event)]
    /\ UNCHANGED <<call, program>>

\* Events::update at the start of the next frame: the events read are dropped
Events_update ==
    /\ key_evr.last_event_count > 0
    /\ key_evr.last_event_count = Len(key_evr.events)
    /\ key_evr' = NoEvents
    /\ UNCHANGED <<call, program>>

\* keyboard_handler, its events taken from the reader
keyboard_handler_reader ==
    /\ stage = "update"
    /\ "keyboard_handler" \in pending
    /\ \E st \in {for_each(KeyState, Unread)} :
           /\ input' = st.input
           /\ futures' = st.futures
           /\ commands' = [commands EXCEPT !["keyboard_handler"] = st.commands]
           /\ commits' = st.commits
    /\ key_evr' = [key_evr EXCEPT !.last_event_count = Len(key_evr.events)]
    /\ UNCHANGED <<call, subscription_info, stage, pending, publish_tasks,
                   subscribe_tasks, sink, log, handled>>

NextKeyboard ==
    \/ KeyboardInput_send
    \/ Events_update
    \/ keyboard_handler_reader

SpecKeyboard == InitKeyboard /\ [][NextKeyboard]_vars

(***************************************************************************)
(* messages::subscribe on its own: any request, any answer of the backend. *)
(***************************************************************************)
\* bodies that are JSON objects: the fields of a key that is absent are blank
JsonBodies ==
    UNION {UNION {{Body(TRUE, keys, t_keys, tt, tr, m) :
                      tt \in (IF "t" \in t_keys THEN {"15", "16"} ELSE {""}),
                      tr \in (IF "r" \in t_keys THEN {12, -1} ELSE {0}),
                      m \in (IF "m" \in keys THEN {<<>>, <<M1>>, <<M2, M1>>}
                             ELSE {<<>>})} :
                  t_keys \in (IF "t" \in keys THEN SUBSET {"t", "r"} ELSE {{}})} :
           keys \in SUBSET {"t", "m"}}

Responses ==
    {TransportError, Response(<<>>), Response(<<Body(FALSE, {}, {}, "", 0, <<>>)>>)}
        \cup {Response(<<b>>) : b \in JsonBodies}

InitSubscribe ==
    /\ ChatPlugin_build
    /\ key_evr = NoEvents
    /\ argument \in
           {[request |-> SubscribeRequest(Config.keyset.subscribe_key, Config.channel,
                                         tt, tr, Config.username),
             response |-> response] :
                tt \in {"0", "15"}, tr \in {"0", "12"}, response \in Responses}
    /\ returned = <<>>

call_subscribe ==
    /\ Len(returned) < MaxCalls
    /\ returned' = Append(returned, subscribe(argument.request, argument.response))
    /\ UNCHANGED <<argument, key_evr, program>>

NextSubscribe == call_subscribe

SpecSubscribe == InitSubscribe /\ [][NextSubscribe]_vars

(***************************************************************************)
(* ChatPluginConfigBuilder::build on its own: any setting of the builder.  *)
(* An Option is a sequence of at most one value.                           *)
(***************************************************************************)
Keyset(publish_key, subscribe_key) ==
    [publish_key |-> publish_key, subscribe_key |-> subscribe_key]

ChatPluginConfigBuilder(keyset, channel, username, message_format) ==
    [keyset |-> keyset, channel |-> channel, username |-> username,
     message_format |-> message_format]

ChatPluginConfig(keyset, channel, username, message_format) ==
    [keyset |-> keyset, channel |-> channel, username |-> username,
     message_format |-> message_format]

\* Result<ChatPlugin, BevyPNError>, and Result<ChatPluginConfig, BevyPNError>
ConfigError(message) ==
    [ok |-> FALSE, err |-> "Config", message |-> message, config |-> <<>>]

Built(config) == [ok |-> TRUE, err |-> "", message |-> "", config |-> <<config>>]

\* String::is_empty; a message format is held as its sequence of tokens
is_empty(string) == string = ""

format_is_empty(message_format) == Len(message_format) = 0

\* mutant: only the keyset is validated
validate_keyset_only(builder) ==
    IF /\ builder.keyset # <<>>
       /\ \/ is_empty(builder.keyset[1].publish_key)
          \/ is_empty(builder.keyset[1].subscribe_key)
    THEN ConfigError("Keyset is empty")
    ELSE Built(<<>>)

\* ChatPluginConfigBuilder::validate: a field that was not set is not checked
validate(builder) ==
    IF /\ builder.keyset # <<>>
       /\ \/ is_empty(builder.keyset[1].publish_key)
          \/ is_empty(builder.keyset[1].subscribe_key)
    THEN ConfigError("Keyset is empty")
    ELSE IF builder.channel # <<>> /\ is_empty(builder.channel[1])
    THEN ConfigError("Channel is empty")
    ELSE IF builder.username # <<>> /\ is_empty(builder.username[1])
    THEN ConfigError("Username is empty")
    ELSE IF builder.message_format # <<>> /\ format_is_empty(builder.message_format[1])
    THEN ConfigError("Message format is empty")
    ELSE Built(<<>>)

\* the build function derive_builder generates: validate, then the fields,
\* each set value or else its default; keyset has no default
internal_build(builder) ==
    LET valid == validate(builder)
    IN IF ~valid.ok THEN valid
       ELSE IF builder.keyset = <<>> THEN ConfigError("keyset must be initialized")
       ELSE Built(ChatPluginConfig(
                builder.keyset[1],
                IF builder.channel = <<>> THEN "bevy-pn-chat" ELSE builder.channel[1],
                IF builder.username = <<>> THEN "anonymous" ELSE builder.username[1],
                IF builder.message_format = <<>>
                THEN <<"{username}", ": ", "{message}">>
                ELSE builder.message_format[1]))

\* TryFrom<ChatPluginConfig> for ChatPlugin; `client` is whether
\* PubNubClientBuilder::build succeeded
try_from(config, client) ==
    IF client THEN Built(config) ELSE ConfigError("PubNub client")

\* ChatPluginConfigBuilder::build
build(builder, client) ==
    LET config == internal_build(builder)
    IN IF ~config.ok THEN config ELSE try_from(config.config[1], client)

Builders ==
    {ChatPluginConfigBuilder(keyset, channel, username, message_format) :
        keyset \in {<<>>} \cup {<<Keyset(p, k)>> : p \in {"", "pub-c"},
                                                  k \in {"", "sub-c"}},
        channel \in {<<>>, <<"">>, <<"room1">>},
        username \in {<<>>, <<"">>, <<"alice">>},
        message_format \in {<<>>, <<<<>>>>, <<<<"{message}">>>>}}

InitBuilder ==
    /\ ChatPlugin_build
    /\ key_evr = NoEvents
    /\ argument \in Builders
    /\ returned = <<>>

call_build ==
    /\ Len(returned) < MaxCalls
    /\ \E client \in BOOLEAN :
           returned' = Append(returned, build(argument, client))
    /\ UNCHANGED <<argument, key_evr, program>>

NextBuilder == call_build

SpecBuilder == InitBuilder /\ [][NextBuilder]_vars

(***************************************************************************)
(* The publish path on its own, from a tick at which one publish is        *)
(* already in flight: the text "A" was committed in an earlier tick, its   *)
(* PublishTask is registered and its future is running; the long poll of   *)
(* startup has not been answered.  The history of commits starts here.     *)
(***************************************************************************)
InitPublish ==
    /\ subscription_info =
           [tt |-> "0", tr |-> "0",
            subscribe_key |-> Config.keyset.subscribe_key,
            channel |-> Config.channel,
            user_id |-> Config.username]
    /\ stage = "update"
    /\ pending = {"keyboard_handler", "tasks_handler"}
    /\ input = <<InputBoxDefault>>
    /\ futures = [publish |-> <<Future(PublishRequest(<<"A">>, Config.channel))>>,
                  subscribe |-> <<Future(SubscribeRequest(
                      Config.keyset.subscribe_key, Config.channel, "0", "0",
                      Config.username))>>]
    /\ publish_tasks = {1}
    /\ subscribe_tasks = {1}
    /\ commands = NoCommands
    /\ sink = <<>>
    /\ log = <<>>
    /\ handled = <<>>
    /\ commits = <<>>
    /\ key_evr = NoEvents
    /\ argument = <<>>
    /\ returned = <<>>

NextPublish ==
    \/ keyboard_handler
    \/ tasks_handler
    \/ apply_system_buffers
    \/ worker_publish

SpecPublish == InitPublish /\ [][NextPublish]_vars

(***************************************************************************)
(* characters_filter on its own: any key code, called again and again.     *)
(***************************************************************************)
InitKeys ==
    /\ ChatPlugin_build
    /\ key_evr = NoEvents
    /\ argument \in KeyCode
    /\ returned = <<>>

call_characters_filter ==
    /\ Len(returned) < MaxCalls
    /\ returned' = Append(returned, characters_filter(argument))
    /\ UNCHANGED <<argument, key_evr, program>>

NextKeys == call_characters_filter

SpecKeys == InitKeys /\ [][NextKeys]_vars

(***************************************************************************)
(* Vocabulary of the properties.                                           *)
(***************************************************************************)
AllCommands ==
    commands["plugin_startup"] \o commands["message_handler"]
        \o commands["keyboard_handler"] \o commands["tasks_handler"]

Queued(op, kind) ==
    {i \in 1..Len(AllCommands) : AllCommands[i].op = op /\ AllCommands[i].kind = kind}

QueuedIds(op, kind) == {AllCommands[i].id : i \in Queued(op, kind)}

\* the texts of the ChatMessage spawns still queued, in issue order
QueuedTexts ==
    LET cs == SelectSeq(AllCommands, LAMBDA c : c.op = "spawn" /\ c.kind = "ChatMessage")
    IN [i \in 1..Len(cs) |-> cs[i].text]

\* a tick boundary: the buffers were applied and no system of the tick has run
TickStart == stage = "update" /\ pending = {"keyboard_handler", "tasks_handler"}

\* SubscribeTasks that are registered, or about to be, and not yet observed complete
Outstanding ==
    {id \in subscribe_tasks \cup QueuedIds("spawn", "SubscribeTask") :
        futures.subscribe[id].observed = 0}

Cursor(tt, tr) == [tt |-> tt, tr |-> tr]

RequestCursor(request) == Cursor(request.tt, request.tr)

ResultCursor(result) ==
    Cursor(result.value.message_info.tt, to_string(result.value.message_info.tr))

RECURSIVE LastGoodCursor(_)
\* the cursor of the last successfully processed result, else the "now" sentinel
LastGoodCursor(hs) ==
    IF hs = <<>> THEN Cursor("0", "0")
    ELSE IF hs[Len(hs)].result.ok THEN ResultCursor(hs[Len(hs)].result)
    ELSE LastGoodCursor(SubSeq(hs, 1, Len(hs) - 1))

RECURSIVE Rendered(_)
Rendered(messages) ==
    IF messages = <<>> THEN <<>>
    ELSE <<render(Config.message_format, Head(messages))>> \o Rendered(Tail(messages))

RECURSIVE Emitted(_)
\* the texts of the messages of all successful results, in processing order
Emitted(hs) ==
    IF hs = <<>> THEN <<>>
    ELSE Emitted(SubSeq(hs, 1, Len(hs) - 1))
             \o (IF hs[Len(hs)].result.ok
                 THEN Rendered(hs[Len(hs)].result.value.messages) ELSE <<>>)

(***************************************************************************)
(* C1: whenever tasks_handler observes a SubscribeTask that completed with *)
(* an error, exactly one new SubscribeTask is enqueued in that tick, with  *)
(* the cursor (tt, tr) of the request that failed.                         *)
(***************************************************************************)
C1_FailureRetriesWithSameCursor ==
    \A i \in 1..Len(handled) :
        ~handled[i].result.ok =>
            /\ Len(handled[i].enqueued) = 1
            /\ RequestCursor(handled[i].enqueued[1])
                   = RequestCursor(handled[i].request)

(***************************************************************************)
(* C2: the Cursor held in the subscription state (the resource's tt, tr)   *)
(* equals the cursor of the last successfully processed result, and the    *)
(* initial sentinel if no result succeeded.                                *)
(***************************************************************************)
C2_CursorIsLastSuccess ==
    Cursor(subscription_info.tt, subscription_info.tr) = LastGoodCursor(handled)

(***************************************************************************)
(* C3: whenever tasks_handler observes a SubscribeTask that completed      *)
(* successfully with result R, exactly one new SubscribeTask is enqueued   *)
(* in that tick, with tt = R.tt and tr = R.tr and the configured key,      *)
(* channel and user id; every request after the first carries the cursor   *)
(* returned by the response before it.                                     *)
(***************************************************************************)
C3_SuccessPollsFromResultCursor ==
    /\ \A i \in 1..Len(handled) :
           handled[i].result.ok =>
               /\ Len(handled[i].enqueued) = 1
               /\ handled[i].enqueued[1] =
                      SubscribeRequest(Config.keyset.subscribe_key, Config.channel,
                                       handled[i].result.value.message_info.tt,
                                       to_string(handled[i].result.value.message_info.tr),
                                       Config.username)
    /\ \A k \in 2..Len(futures.subscribe) :
           /\ futures.subscribe[k - 1].result.ok
           /\ RequestCursor(futures.subscribe[k].request)
                  = ResultCursor(futures.subscribe[k - 1].result)
           /\ \/ k \in subscribe_tasks
              \/ k \in QueuedIds("spawn", "SubscribeTask")
              \/ futures.subscribe[k].observed > 0

C3_Witness ==
    /\ Len(handled) = 1
    /\ handled[1].result.ok
    /\ handled[1].result.value.message_info.tr = -1
    /\ Len(futures.subscribe) = 2
    /\ futures.subscribe[2].request.tr = "-1"
    /\ subscribe_tasks = {2}

(***************************************************************************)
(* C4: the subscription loop has no terminal state: at the start of every  *)
(* tick after startup a SubscribeTask is outstanding.                      *)
(***************************************************************************)
C4_NoTerminalState ==
    TickStart => \E id \in subscribe_tasks : futures.subscribe[id].observed = 0

(***************************************************************************)
(* C5: at most one SubscribeTask is outstanding (registered and not yet    *)
(* observed complete), and at most one is registered, in every state.      *)
(***************************************************************************)
C5_AtMostOneSubscribeTask ==
    /\ Cardinality(Outstanding) <= 1
    /\ Cardinality(subscribe_tasks) <= 1

C5_Witness ==
    /\ Len(futures.subscribe) = 2
    /\ subscribe_tasks = {1}
    /\ futures.subscribe[1].observed = 1
    /\ Outstanding = {2}

(***************************************************************************)
(* C6: the messages emitted to the sink over a run are, in order, the      *)
(* messages of all successful results in processing order: none dropped,   *)
(* reordered or duplicated.                                                *)
(***************************************************************************)
C6_MessagesForwardedInOrder ==
    sink \o QueuedTexts = Emitted(handled)

C6_Witness ==
    /\ Len(handled) = 1
    /\ Len(handled[1].result.value.messages) = 2
    /\ Len(sink) = 2
    /\ QueuedTexts = <<>>
    /\ sink[1] # sink[2]

(***************************************************************************)
(* C7: every task's result is observed at most once; a task observed       *)
(* complete is removed from the registry by the end of that tick; and once *)
(* all tasks are complete and the registry is empty, each of the N tasks   *)
(* enqueued has been observed exactly once.                                *)
(***************************************************************************)
C7_ExactlyOnceDelivery ==
    /\ \A id \in 1..Len(futures.publish) :
           /\ futures.publish[id].observed <= 1
           /\ futures.publish[id].observed = 1 /\ id \in publish_tasks
                  => id \in QueuedIds("despawn", "PublishTask")
    /\ \A id \in 1..Len(futures.subscribe) :
           /\ futures.subscribe[id].observed <= 1
           /\ futures.subscribe[id].observed = 1 /\ id \in subscribe_tasks
                  => id \in QueuedIds("despawn", "SubscribeTask")
    /\ (publish_tasks = {} /\ subscribe_tasks = {} /\ commands = NoCommands) =>
           /\ \A id \in 1..Len(futures.publish) : futures.publish[id].observed = 1
           /\ \A id \in 1..Len(futures.subscribe) : futures.subscribe[id].observed = 1

C7_Witness ==
    /\ stage = "update"
    /\ publish_tasks = {}
    /\ subscribe_tasks = {}
    /\ commands = NoCommands
    /\ Len(futures.publish) = 1
    /\ Len(futures.subscribe) = 2
    /\ futures.publish[1].observed = 1
    /\ futures.subscribe[2].observed = 1

(***************************************************************************)
(* C8: pressing Return while the input text is empty is a no-op: no        *)
(* PublishTask is enqueued and the buffer is unchanged.                    *)
(***************************************************************************)
C8_EmptyCommitIsNoOp ==
    \A i \in 1..Len(commits) :
        (\A j \in 1..Len(commits[i].before) : commits[i].before[j].value = <<>>) =>
            /\ commits[i].enqueued = <<>>
            /\ commits[i].after = commits[i].before

(***************************************************************************)
(* C9: pressing Return while the input holds a non-empty text T enqueues   *)
(* exactly one PublishTask, with payload T on the configured channel, and  *)
(* leaves the buffer cleared: text empty, cursor 0, no selection.          *)
(***************************************************************************)
C9_CommitPublishesText ==
    /\ \A i \in 1..Len(commits) :
           (Len(commits[i].before) = 1 /\ commits[i].before[1].value # <<>>) =>
               /\ Len(commits[i].enqueued) = 1
               /\ commits[i].enqueued[1] =
                      PublishRequest(commits[i].before[1].value, Config.channel)
               /\ commits[i].after =
                      <<[value |-> <<>>, cursor |-> 0, selection |-> {}]>>
    /\ \A id \in 1..Len(futures.publish) :
           \/ id \in publish_tasks
           \/ id \in QueuedIds("spawn", "PublishTask")
           \/ futures.publish[id].observed > 0

C9_Witness ==
    /\ Len(commits) = 1
    /\ commits[1].before[1].value = <<"A">>
    /\ input[1].value = <<>>
    /\ publish_tasks = {1}

(***************************************************************************)
(* C10: a PublishTask that completes with an error is logged and removed   *)
(* but never retried: the number of PublishTasks ever created equals the   *)
(* number of commits that enqueued one.                                    *)
(***************************************************************************)
C10_PublishNeverRetried ==
    /\ Len(futures.publish)
           = Cardinality({i \in 1..Len(commits) : commits[i].enqueued # <<>>})
    /\ \A id \in 1..Len(futures.publish) :
           (futures.publish[id].observed > 0 /\ ~futures.publish[id].result.ok) =>
               /\ [op |-> "publish", err |-> futures.publish[id].result.err]
                      \in Range(log)
               /\ \/ id \notin publish_tasks
                  \/ id \in QueuedIds("despawn", "PublishTask")

C10_Witness ==
    /\ Len(futures.publish) = 1
    /\ futures.publish[1].observed = 1
    /\ ~futures.publish[1].result.ok
    /\ publish_tasks = {}
    /\ TickStart

(***************************************************************************)
(* The key sets of the character mapping.                                  *)
(***************************************************************************)
SpecialKeys ==
    {"Space", "Comma", "Period", "Slash", "Semicolon", "Apostrophe", "Backslash",
     "LBracket", "RBracket", "Grave", "Minus", "Equals"}

LetterKeys ==
    {"A", "B", "C", "D", "E", "F", "G", "H", "I", "J", "K", "L", "M", "N", "O",
     "P", "Q", "R", "S", "T", "U", "V", "W", "X", "Y", "Z"}

DigitRowKeys ==
    {"Key0", "Key1", "Key2", "Key3", "Key4", "Key5", "Key6", "Key7", "Key8", "Key9"}

KeypadDigitKeys ==
    {"Numpad0", "Numpad1", "Numpad2", "Numpad3", "Numpad4", "Numpad5", "Numpad6",
     "Numpad7", "Numpad8", "Numpad9"}

PrintableKeys == SpecialKeys \cup LetterKeys \cup DigitRowKeys \cup KeypadDigitKeys

\* the character each printable key stands for
Literal ==
    [Space |-> " ", Comma |-> ",", Period |-> ".", Slash |-> "/",
     Semicolon |-> ";", Apostrophe |-> "'", Backslash |-> "\\", LBracket |-> "[",
     RBracket |-> "]", Grave |-> "U+0060", Minus |-> "-", Equals |-> "=",
     Key0 |-> "0", Key1 |-> "1", Key2 |-> "2", Key3 |-> "3", Key4 |-> "4",
     Key5 |-> "5", Key6 |-> "6", Key7 |-> "7", Key8 |-> "8", Key9 |-> "9",
     Numpad0 |-> "0", Numpad1 |-> "1", Numpad2 |-> "2", Numpad3 |-> "3",
     Numpad4 |-> "4", Numpad5 |-> "5", Numpad6 |-> "6", Numpad7 |-> "7",
     Numpad8 |-> "8", Numpad9 |-> "9"]

ExpectedCharacter(key_code) ==
    IF key_code \in LetterKeys THEN key_code ELSE Literal[key_code]

(***************************************************************************)
(* C11: for every key code that is not one of the 12 special keys, a       *)
(* letter key A-Z, a digit-row key Key0-Key9 or a keypad digit key         *)
(* Numpad0-Numpad9, characters_filter returns no character.                *)
(***************************************************************************)
C11_NegativeSet ==
    argument \in KeyCode \ PrintableKeys =>
        \A i \in 1..Len(returned) : returned[i] = <<>>

(***************************************************************************)
(* C12: characters_filter maps each special key to its literal character,  *)
(* each letter key to the uppercase letter and each Key0-Key9 and          *)
(* Numpad0-Numpad9 key to its digit, on every call.                        *)
(***************************************************************************)
C12_PositiveSet ==
    argument \in PrintableKeys =>
        \A i \in 1..Len(returned) : returned[i] = <<ExpectedCharacter(argument)>>

C12_Witness ==
    /\ argument \in {"Grave", "Z", "Key0", "Numpad7"}
    /\ Len(returned) = MaxCalls
    /\ returned[1] = returned[MaxCalls]
    /\ returned[1] # <<>>

(***************************************************************************)
(* Vocabulary of the keyboard properties.                                  *)
(***************************************************************************)
\* a step of keyboard_handler that read at least one event
ReaderStep == key_evr'.last_event_count > key_evr.last_event_count

Press(key_code) == KeyboardInput(<<key_code>>, TRUE)

InsertAt(value, cursor, character) ==
    SubSeq(value, 1, cursor) \o <<character>> \o SubSeq(value, cursor + 1, Len(value))

DeleteBefore(value, cursor) ==
    SubSeq(value, 1, cursor - 1) \o SubSeq(value, cursor + 1, Len(value))

\* the events that are presses of a key with a key code
Presses(events) == SelectSeq(events, LAMBDA e : e.pressed /\ e.key_code # <<>>)

RECURSIVE PressEach(_, _)
\* the keys of the events pressed one by one, first to last
PressEach(st, events) ==
    IF events = <<>> THEN st
    ELSE PressEach(press(st, Head(events).key_code[1]), Tail(events))

(***************************************************************************)
(* C13: a press of a printable key with character c inserts c into the     *)
(* text at cursor_position and advances cursor_position by one; the text   *)
(* grows by one character.                                                 *)
(***************************************************************************)
C13_PrintableInsertsAtCursor ==
    [][\A k \in TickKeys \cap PrintableKeys :
           (ReaderStep /\ Unread = <<Press(k)>>) =>
               \A i \in 1..Len(input) :
                   /\ input'[i].value =
                          InsertAt(input[i].value, input[i].cursor,
                                   characters_filter(k)[1])
                   /\ input'[i].cursor = input[i].cursor + 1
                   /\ Len(input'[i].value) = Len(input[i].value) + 1]_vars

(***************************************************************************)
(* C14: Backspace deletes the character immediately before cursor_position *)
(* and decrements cursor_position when cursor_position > 0, and changes    *)
(* nothing when cursor_position is 0.                                      *)
(***************************************************************************)
C14_BackspaceDeletesBeforeCursor ==
    [][(ReaderStep /\ Unread = <<Press("Back")>>) =>
           \A i \in 1..Len(input) :
               IF input[i].cursor > 0
               THEN /\ input'[i].value =
                           DeleteBefore(input[i].value, input[i].cursor)
                    /\ input'[i].cursor = input[i].cursor - 1
               ELSE input'[i] = input[i]]_vars

(***************************************************************************)
(* C15: after any sequence of printable-key, Backspace and Return events,  *)
(* 0 <= cursor_position <= length(text).                                   *)
(***************************************************************************)
C15_CursorWithinText ==
    \A i \in 1..Len(input) :
        /\ 0 <= input[i].cursor
        /\ input[i].cursor <= Len(input[i].value)

C15_Witness ==
    /\ key_evr.last_event_count > 0
    /\ commits # <<>>
    /\ commits[1].before[1].value # <<>>
    /\ input[1].value # <<>>

(***************************************************************************)
(* C18: within one tick the key events are applied strictly in the order   *)
(* they were received, key-release events change nothing and repeated      *)
(* presses are applied independently: the handler's result equals pressing *)
(* the keys of the press events one by one.                                *)
(***************************************************************************)
C18_EventsAppliedInOrder ==
    [][ReaderStep =>
           \E st \in {PressEach(KeyState, Presses(Unread))} :
               /\ input' = st.input
               /\ futures' = st.futures
               /\ commands'["keyboard_handler"] = st.commands
               /\ commits' = st.commits]_vars

C18_Witness ==
    /\ key_evr.last_event_count = 4
    /\ key_evr.events = <<Press("A"), KeyboardInput(<<"A">>, FALSE), Press("A"),
                          Press("Return")>>
    /\ commits # <<>>
    /\ commits[Len(commits)].enqueued[1].message = <<"A", "A">>
    /\ input[1].value = <<>>

(***************************************************************************)
(* Vocabulary of the properties of subscribe and of the builder.           *)
(***************************************************************************)
\* a JSON body with the fields SubscriptionResult and SubscriptionInfo require
WellFormed(body) ==
    /\ body.json
    /\ "t" \in body.keys /\ "m" \in body.keys
    /\ "t" \in body.t_keys /\ "r" \in body.t_keys

\* a keyset with an empty key, or a setter called with the empty string
EmptySetting(builder) ==
    \/ /\ builder.keyset # <<>>
       /\ "" \in {builder.keyset[1].publish_key, builder.keyset[1].subscribe_key}
    \/ builder.channel = <<"">>
    \/ builder.username = <<"">>
    \/ builder.message_format = <<<<>>>>

(***************************************************************************)
(* C16: one subscribe request yields an error, never a result, in each     *)
(* failure case: a transport failure yields a PubNub error, a response     *)
(* with no body yields EmptyBody, a body that is not JSON of the expected  *)
(* shape yields Deserialize; only a well-formed body yields a              *)
(* SubscriptionResult, with the body's cursor and message list.            *)
(***************************************************************************)
C16_SubscribeFailuresAreErrors ==
    \A i \in 1..Len(returned) :
        LET response == argument.response
            result == returned[i]
        IN IF ~response.sent THEN result = Err("PubNub")
           ELSE IF response.body = <<>> THEN result = Err("EmptyBody")
           ELSE IF ~WellFormed(response.body[1]) THEN result = Err("Deserialize")
           ELSE /\ result.ok
                /\ result.value.message_info.tt = response.body[1].tt
                /\ result.value.message_info.tr = response.body[1].tr
                /\ result.value.messages = response.body[1].m

C16_Witness ==
    /\ returned # <<>>
    /\ argument.response.body # <<>>
    /\ argument.response.body[1].json
    /\ ~WellFormed(argument.response.body[1])
    /\ ~returned[1].ok

(***************************************************************************)
(* C17: building the plugin configuration fails with a Config error        *)
(* whenever the keyset has an empty publish key or an empty subscribe key, *)
(* or the channel, the username or the message format is set to the empty  *)
(* string; no configuration value is produced then.                        *)
(***************************************************************************)
C17_EmptySettingFailsBuild ==
    EmptySetting(argument) =>
        \A i \in 1..Len(returned) :
            /\ ~returned[i].ok
            /\ returned[i].err = "Config"
            /\ returned[i].config = <<>>

C17_Witness ==
    /\ argument.keyset = <<Keyset("pub-c", "sub-c")>>
    /\ argument.channel = <<"room1">>
    /\ argument.username = <<"alice">>
    /\ argument.message_format = <<<<>>>>
    /\ returned # <<>>

(***************************************************************************)
(* Vocabulary of the properties of ticks and workers.                      *)
(***************************************************************************)
\* a step of tasks_handler, and one of keyboard_handler
TasksStep == "tasks_handler" \in pending /\ "tasks_handler" \notin pending'

KeyboardStep == "keyboard_handler" \in pending /\ "keyboard_handler" \notin pending'

\* the registered tasks of a kind: the entities of the query
Registered(kind) == IF kind = "publish" THEN publish_tasks ELSE subscribe_tasks

TaskKind(kind) == IF kind = "publish" THEN "PublishTask" ELSE "SubscribeTask"

\* a step in which the worker of future id of the kind completes
WorkerStep(kind, id) ==
    /\ futures[kind][id].state = "running"
    /\ futures'[kind][id].state = "done"

\* the results the operation can produce from the request it was given
Results(kind, request) ==
    IF kind = "publish" THEN {publish(request, sent) : sent \in BOOLEAN}
    ELSE {subscribe(request, response) : response \in GoodResponses \cup BadResponses}

(***************************************************************************)
(* C19: the per-tick drain never waits: a step of tasks_handler taken      *)
(* while registered tasks are still running completes none of them, and    *)
(* every registered task that is not complete stays registered with its    *)
(* state unchanged: it is not despawned, not spawned again, and no result  *)
(* is produced for it.                                                     *)
(***************************************************************************)
C19_DrainNeverWaits ==
    [][TasksStep =>
           \A kind \in {"publish", "subscribe"} :
               \A id \in Registered(kind) :
                   futures[kind][id].state = "running" =>
                       /\ futures'[kind][id] = futures[kind][id]
                       /\ id \in Registered(kind)'
                       /\ \A i \in 1..Len(commands'["tasks_handler"]) :
                              ~(/\ commands'["tasks_handler"][i].kind = TaskKind(kind)
                                /\ commands'["tasks_handler"][i].id = id)
                       /\ \A i \in Len(futures[kind]) + 1..Len(futures'[kind]) :
                              futures'[kind][i].request # futures[kind][id].request
                       /\ kind = "subscribe" =>
                              \A i \in Len(handled) + 1..Len(handled') :
                                  handled'[i].id # id]_vars

\* a tick ended (its commands were applied, the publish task is gone) while
\* the long poll was running all along: it is still registered and running
C19_Witness ==
    /\ TickStart
    /\ Len(futures.publish) = 1
    /\ futures.publish[1].observed = 1
    /\ publish_tasks = {}
    /\ \E id \in subscribe_tasks :
           /\ futures.subscribe[id].state = "running"
           /\ futures.subscribe[id].observed = 0

(***************************************************************************)
(* C20: worker tasks never write tick-thread state: the Cursor and the     *)
(* input buffer change only inside a tick action (keyboard_handler or      *)
(* tasks_handler), and a worker step only produces its own result, from    *)
(* the parameters copied when the task was enqueued.                       *)
(***************************************************************************)
C20_WorkersWriteOnlyTheirResult ==
    [][/\ subscription_info' # subscription_info => KeyboardStep \/ TasksStep
       /\ \A i \in 1..Len(input) :
              input'[i] # input[i] => KeyboardStep \/ TasksStep
       /\ \A kind \in {"publish", "subscribe"} :
              \A id \in 1..Len(futures[kind]) :
                  WorkerStep(kind, id) =>
                      /\ futures'[kind][id].result
                             \in Results(kind, futures[kind][id].request)
                      /\ futures' = [futures EXCEPT
                             ![kind][id].state = "done",
                             ![kind][id].result = futures'[kind][id].result]
                      /\ UNCHANGED <<subscription_info, input, stage, pending,
                                     publish_tasks, subscribe_tasks, commands,
                                     sink, log, handled, commits>>]_vars

C20_Witness ==
    /\ \E i \in 1..Len(input) : input[i].value # <<>>
    /\ \E id \in 1..Len(futures.subscribe) :
           /\ futures.subscribe[id].state = "done"
           /\ futures.subscribe[id].result.ok
    /\ "keyboard_handler" \notin pending
    /\ "tasks_handler" \in pending

(***************************************************************************)
(* Vocabulary of the startup properties.                                   *)
(***************************************************************************)
\* the request of the "now" sentinel, for the configured key, channel and user
SentinelRequest ==
    SubscribeRequest(Config.keyset.subscribe_key, Config.channel, "0", to_string(0),
                     Config.username)

(***************************************************************************)
(* C21: at startup the loop enqueues exactly one SubscribeTask, and that   *)
(* first request carries the "now" sentinel cursor tt = "0", tr = 0 with   *)
(* the configured subscribe key, channel and user id: during the startup   *)
(* stage the only step that enqueues is message_handler's, and it enqueues *)
(* that one request.                                                       *)
(***************************************************************************)
C21_StartupEnqueuesSentinelPoll ==
    [][stage = "startup" =>
           IF "message_handler" \in pending /\ "message_handler" \notin pending'
           THEN /\ futures.subscribe = <<>>
                /\ futures'.subscribe = <<Future(SentinelRequest)>>
                /\ commands'["message_handler"] = <<Spawn("SubscribeTask", 1, <<>>)>>
           ELSE /\ Len(futures'.subscribe) = Len(futures.subscribe)
                /\ commands'["message_handler"] \in {commands["message_handler"], <<>>}
                /\ stage' = "update" =>
                       /\ subscribe_tasks' = {1}
                       /\ futures'.subscribe[1].request = SentinelRequest]_vars

C21_Witness ==
    /\ TickStart
    /\ subscribe_tasks = {1}
    /\ Len(futures.subscribe) = 1
    /\ futures.subscribe[1].request = SentinelRequest
    /\ handled = <<>>

(***************************************************************************)
(* Vocabulary of the counting properties.                                  *)
(***************************************************************************)
\* the startup systems have run
Started == stage = "update" \/ "message_handler" \notin pending

\* the subscribe completions observed so far that were successful, and failed
ObservedOk == {i \in 1..Len(handled) : handled[i].result.ok}

ObservedFailed == {i \in 1..Len(handled) : ~handled[i].result.ok}

(***************************************************************************)
(* C22: once the startup system has run, the number of SubscribeTasks ever *)
(* enqueued equals 1 (the startup task) plus the number of successful      *)
(* subscribe completions observed so far; a failed completion adds none.   *)
(***************************************************************************)
C22_SubscribesAreOnePlusSuccesses ==
    [](Started =>
           /\ Len(futures.subscribe) = 1 + Cardinality(ObservedOk)
           /\ \A i \in ObservedFailed : handled[i].enqueued = <<>>
           /\ \A i \in ObservedOk : Len(handled[i].enqueued) = 1)

C22_Witness ==
    /\ Len(handled) = 2
    /\ handled[1].result.ok
    /\ ~handled[2].result.ok
    /\ Len(futures.subscribe) = 2

(***************************************************************************)
(* Vocabulary of the commit properties.                                    *)
(***************************************************************************)
\* the key codes of the press events, in order
PressedKeys(events) ==
    [i \in 1..Len(Presses(events)) |-> Presses(events)[i].key_code[1]]

RECURSIVE BufferAfter(_, _)
\* the buffer after the keys: a Return leaves it cleared, Backspace drops the
\* last character, a printable key adds its character at the end
BufferAfter(value, keys) ==
    IF keys = <<>> THEN value
    ELSE LET key == keys[Len(keys)]
             earlier == BufferAfter(value, SubSeq(keys, 1, Len(keys) - 1))
         IN IF key = "Return" THEN <<>>
            ELSE IF key = "Back"
            THEN SubSeq(earlier, 1, Len(earlier) - 1)
            ELSE IF key \in PrintableKeys
            THEN earlier \o <<ExpectedCharacter(key)>>
            ELSE earlier

\* the positions of the Return presses among the keys, in order
Returns(keys) == SetToSeq({j \in 1..Len(keys) : keys[j] = "Return"})

(***************************************************************************)
(* C23: when a Return press arrives between other key presses of the same  *)
(* tick, the published payload is exactly the buffer at the moment of the  *)
(* Return (the keys applied before it), and the printable keys that follow *)
(* it in that tick end up in the freshly cleared buffer, not in the        *)
(* payload.                                                                *)
(***************************************************************************)
C23_ReturnSplitsTheTick ==
    [][ReaderStep =>
           LET keys == PressedKeys(Unread)
               returns == Returns(keys)
           IN /\ Len(commits') = Len(commits) + Len(returns)
              /\ \A n \in 1..Len(returns) :
                     LET commit_n == commits'[Len(commits) + n]
                     IN /\ Len(commit_n.enqueued) = 1
                        /\ commit_n.enqueued[1].message =
                               BufferAfter(input[1].value,
                                           SubSeq(keys, 1, returns[n] - 1))
              /\ input'[1].value = BufferAfter(input[1].value, keys)]_vars

C23_Witness ==
    /\ key_evr.last_event_count = 3
    /\ key_evr.events = <<Press("A"), Press("Return"), Press("A")>>
    /\ Len(commits) = 1
    /\ commits[1].enqueued[1].message = <<"A">>
    /\ input[1].value = <<"A">>

(***************************************************************************)
(* Vocabulary of the sink properties.                                      *)
(***************************************************************************)
\* the subscribe completions observed by the step
NewlyHandled == {i \in 1..Len(handled') : i > Len(handled)}

\* the step is the flush of the stage's commands
FlushStep == pending = {} /\ pending' # {}

(***************************************************************************)
(* C24: observing a failed subscribe completion emits no message to the    *)
(* rendering sink: the displayed messages and the messages about to be     *)
(* displayed are unchanged by a failure, and a successful result with an   *)
(* empty message list emits nothing either; messages are emitted only by a *)
(* step that observes a successful result with messages.                   *)
(***************************************************************************)
C24_FailureEmitsNothing ==
    [][/\ (\A i \in NewlyHandled :
               \/ ~handled'[i].result.ok
               \/ handled'[i].result.value.messages = <<>>)
           => (FlushStep \/ QueuedTexts' = QueuedTexts)
       /\ ~FlushStep => sink' = sink
       /\ FlushStep => sink' = sink \o QueuedTexts]_vars

C24_Witness ==
    /\ TickStart
    /\ Len(handled) = 2
    /\ handled[1].result.ok
    /\ handled[1].result.value.messages = <<>>
    /\ ~handled[2].result.ok
    /\ sink = <<>>

(***************************************************************************)
(* Vocabulary of the publish properties.                                   *)
(***************************************************************************)
\* the PublishTasks registered once the commands issued so far are applied
RegisteredPublishes ==
    (publish_tasks \cup QueuedIds("spawn", "PublishTask"))
        \ QueuedIds("despawn", "PublishTask")

\* the publishes observed complete by tasks_handler
ObservedPublishes ==
    {id \in 1..Len(futures.publish) : futures.publish[id].observed > 0}

(***************************************************************************)
(* C25: there is no cap on in-flight publishes: the number of registered   *)
(* PublishTasks equals the number of PublishTasks enqueued minus the       *)
(* number already observed complete (exactly so at a tick boundary, and    *)
(* counting the commands not yet applied within a tick), and every Return  *)
(* handled enqueued its publish at once, whatever publishes were running.  *)
(***************************************************************************)
C25_NoCapOnPublishes ==
    /\ RegisteredPublishes = (1..Len(futures.publish)) \ ObservedPublishes
    /\ TickStart =>
           Cardinality(publish_tasks)
               = Len(futures.publish) - Cardinality(ObservedPublishes)
    /\ \A i \in 1..Len(commits) :
           Len(commits[i].enqueued) = Len(commits[i].before)

C25_Witness ==
    /\ TickStart
    /\ publish_tasks = {1, 2}
    /\ futures.publish[1].state = "running"
    /\ futures.publish[2].state = "running"
    /\ Len(commits) = 1

(***************************************************************************)
(* Vocabulary of the independence property.                                *)
(***************************************************************************)
\* the commands of a kind in a system's queue
CommandsOf(system, kind) ==
    {i \in 1..Len(commands[system]) : commands[system][i].kind = kind}

(***************************************************************************)
(* C26: the two per-tick handlers are independent in their effects:        *)
(* tasks_handler never changes the input buffer and never creates a        *)
(* PublishTask, and keyboard_handler never creates or removes a            *)
(* SubscribeTask and never changes the Cursor, whichever of the two runs   *)
(* first in the tick.                                                      *)
(***************************************************************************)
C26_HandlersAreIndependent ==
    [][/\ TasksStep =>
              /\ input' = input
              /\ Len(futures'.publish) = Len(futures.publish)
              /\ \A i \in CommandsOf("tasks_handler", "PublishTask")' :
                     commands'["tasks_handler"][i].op = "despawn"
              /\ commands'["keyboard_handler"] = commands["keyboard_handler"]
       /\ KeyboardStep =>
              /\ futures'.subscribe = futures.subscribe
              /\ subscribe_tasks' = subscribe_tasks
              /\ CommandsOf("keyboard_handler", "SubscribeTask")' = {}
              /\ commands'["tasks_handler"] = commands["tasks_handler"]
              /\ subscription_info' = subscription_info]_vars

\* a tick in which keyboard_handler ran first and committed, and one in which
\* tasks_handler ran first and observed a successful long poll
C26_Witness ==
    /\ stage = "update"
    /\ \/ /\ pending = {"tasks_handler"}
          /\ CommandsOf("keyboard_handler", "PublishTask") # {}
          /\ \E id \in subscribe_tasks :
                 /\ futures.subscribe[id].state = "done"
                 /\ futures.subscribe[id].result.ok
       \/ /\ pending = {"keyboard_handler"}
          /\ CommandsOf("tasks_handler", "SubscribeTask") # {}
          /\ \E i \in 1..Len(input) : input[i].value # <<>>

====
